---- MODULE Spec2Model ----
(***************************************************************************)
(* diffusion/diffusion_utils.py: normal_kl, approx_standard_normal_cdf,    *)
(* continuous_gaussian_log_likelihood, discretized_gaussian_log_likelihood.*)
(*                                                                         *)
(* Numbers are fixed-point integers: the integer n stands for n / S.       *)
(* Addition, subtraction and comparison are exact; products, quotients and *)
(* exp / log / tanh are truncated to the grid.  IEEE rounding of the       *)
(* tensor dtype is not modelled.  Tensors are 0-d or 1-d.                  *)
(***************************************************************************)
EXTENDS Integers, Sequences, FiniteSets, TLC

VARIABLES pc, fn, args, out, prev, walk

vars == <<pc, fn, args, out, prev, walk>>

---------------------------------------------------------------------------
(* Fixed-point arithmetic                                                  *)

B == 200
C == 255
S == B * C

Fx(num, den) == (num * S) \div den

Abs(a) == IF a < 0 THEN -a ELSE a
Sgn(a) == IF a < 0 THEN -1 ELSE IF a > 0 THEN 1 ELSE 0

\* floor(a * b / S) for a, b >= 0, without leaving 32 bits
MulNN(a, b) ==
    LET ah == a \div B
        al == a % B
        bh == b \div C
        bl == b % C
    IN  ah * bh + (ah * bl * B + al * bh * C + al * bl) \div S

\* a * b, truncated toward zero
Mul(a, b) == Sgn(a) * Sgn(b) * MulNN(Abs(a), Abs(b))

\* floor(a * S / b) for a >= 0, b > 0
DivNN(a, b) ==
    LET q0 == a \div b
        r0 == a % b
        q1 == (r0 * B) \div b
        r1 == (r0 * B) % b
    IN  q0 * S + q1 * C + (r1 * C) \div b

Ln2 == 35350

RECURSIVE Pow2(_)
Pow2(n) == IF n = 0 THEN 1 ELSE 2 * Pow2(n - 1)

\* term + term*r/k + term*r^2/(k(k+1)) + ... until the terms vanish
RECURSIVE ExpSeries(_, _, _)
ExpSeries(r, term, k) ==
    IF term = 0 THEN 0
    ELSE term + ExpSeries(r, MulNN(term, r) \div k, k + 1)

ExpPos(v) == Pow2(v \div Ln2) * ExpSeries(v % Ln2, S, 1)

\* e^v
Exp(v) ==
    IF v >= 0 THEN ExpPos(v)
    ELSE IF -v < Ln2 THEN DivNN(S, ExpPos(-v))
    ELSE LET n == (-v + Ln2 - 1) \div Ln2
         IN  IF n > 30 THEN 0
             ELSE ExpSeries(n * Ln2 + v, S, 1) \div Pow2(n)

TanhSat == (62 * S) \div 10

\* tanh u = (1 - e^-2u) / (1 + e^-2u); equal to 1 on the grid from TanhSat on
RECURSIVE Tanh(_)
Tanh(u) ==
    IF u < 0 THEN -Tanh(-u)
    ELSE IF u >= TanhSat THEN S
    ELSE LET e == Exp(-2 * u) IN DivNN(S - e, S + e)

NegInf == -2000000000

\* m scaled by powers of two into [3S/4, 3S/2), with the exponent
RECURSIVE Normalise(_, _)
Normalise(m, e) ==
    IF 4 * m < 3 * S THEN Normalise(2 * m, e - 1)
    ELSE IF 2 * m >= 3 * S THEN Normalise(m \div 2, e + 1)
    ELSE <<m, e>>

\* t + t^3/3 + t^5/5 + ... for t >= 0
RECURSIVE AtanhSeries(_, _, _)
AtanhSeries(t2, term, k) ==
    IF term = 0 THEN 0
    ELSE term \div k + AtanhSeries(t2, MulNN(term, t2), k + 2)

\* ln p = e ln 2 + 2 atanh((m - 1) / (m + 1)); log(0) is -inf
Log(p) ==
    IF p <= 0 THEN NegInf
    ELSE LET me == Normalise(p, 0)
             t  == DivNN(Abs(me[1] - S), me[1] + S)
         IN  me[2] * Ln2 + Sgn(me[1] - S) * 2 * AtanhSeries(MulNN(t, t), t, 1)

\* v^3; beyond CubeMax the cube saturates (tanh of it is +-1 either way)
CubeMax == 8 * S
Pow3(v) ==
    IF Abs(v) > CubeMax THEN Sgn(v) * 512 * S
    ELSE Mul(Mul(v, v), v)

---------------------------------------------------------------------------
(* Python floats, tensors and raised exceptions                            *)

Py(v) == [kind |-> "float", v |-> v]
\* data is held as an explicit tuple
Tensor(shape, data) == [kind |-> "Tensor", shape |-> shape, data |-> data \o <<>>]
Raise(e) == [kind |-> e]
None == [kind |-> "None"]

IsTensor(obj) == obj.kind = "Tensor"
IsValue(obj) == obj.kind \in {"float", "Tensor"}

Numel(shape) == IF shape = <<>> THEN 1 ELSE shape[1]
Full(shape, v) == Tensor(shape, [i \in 1..Numel(shape) |-> v])

ShapeOf(obj) == IF IsTensor(obj) THEN obj.shape ELSE <<>>

\* element i of obj when expanded to a broadcast shape
At(obj, i) ==
    IF ~IsTensor(obj) THEN obj.v
    ELSE IF Len(obj.data) = 1 THEN obj.data[1]
    ELSE obj.data[i]

NoShape == <<-1>>

Broadcast(sa, sb) ==
    IF sa = NoShape \/ sb = NoShape THEN NoShape
    ELSE IF sa = <<>> THEN sb
    ELSE IF sb = <<>> THEN sa
    ELSE IF sa[1] = sb[1] THEN sa
    ELSE IF sa[1] = 1 THEN sb
    ELSE IF sb[1] = 1 THEN sa
    ELSE NoShape

Square(a) == Mul(a, a)

\* the scalar operation named op
Apply2(op, a, b) ==
    CASE op = "add" -> a + b
      [] op = "sub" -> a - b
      [] op = "mul" -> Mul(a, b)
      [] op = "div" -> DivNN(a, b)

\* elementwise binary operator with broadcasting
BinOp(op, a, b) ==
    IF ~IsValue(a) THEN a
    ELSE IF ~IsValue(b) THEN b
    ELSE IF ~IsTensor(a) /\ ~IsTensor(b) THEN Py(Apply2(op, a.v, b.v))
    ELSE LET sh == Broadcast(ShapeOf(a), ShapeOf(b))
         IN  IF sh = NoShape THEN Raise("RuntimeError")
             ELSE Tensor(sh, [i \in 1..Numel(sh) |-> Apply2(op, At(a, i), At(b, i))])

th_add(a, b) == BinOp("add", a, b)
th_sub(a, b) == BinOp("sub", a, b)
th_mul(a, b) == BinOp("mul", a, b)

\* unary minus and ** 2, on Python floats and tensors
th_neg(a) ==
    IF ~IsValue(a) THEN a
    ELSE IF ~IsTensor(a) THEN Py(-a.v)
    ELSE Tensor(a.shape, [i \in 1..Numel(a.shape) |-> -a.data[i]])
th_square(a) ==
    IF ~IsValue(a) THEN a
    ELSE IF ~IsTensor(a) THEN Py(Square(a.v))
    ELSE Tensor(a.shape, [i \in 1..Numel(a.shape) |-> Square(a.data[i])])

\* elementwise torch functions; they reject plain Python floats
th_exp(a) ==
    IF ~IsValue(a) THEN a
    ELSE IF ~IsTensor(a) THEN Raise("TypeError")
    ELSE Tensor(a.shape, [i \in 1..Numel(a.shape) |-> Exp(a.data[i])])
th_tanh(a) ==
    IF ~IsValue(a) THEN a
    ELSE IF ~IsTensor(a) THEN Raise("TypeError")
    ELSE Tensor(a.shape, [i \in 1..Numel(a.shape) |-> Tanh(a.data[i])])
th_pow3(a) ==
    IF ~IsValue(a) THEN a
    ELSE IF ~IsTensor(a) THEN Raise("TypeError")
    ELSE Tensor(a.shape, [i \in 1..Numel(a.shape) |-> Pow3(a.data[i])])
th_log(a) ==
    IF ~IsValue(a) THEN a
    ELSE IF ~IsTensor(a) THEN Raise("TypeError")
    ELSE Tensor(a.shape, [i \in 1..Numel(a.shape) |-> Log(a.data[i])])

\* a / b for a >= 0, b > 0
th_div(a, b) == BinOp("div", a, b)

\* th.tensor(x).to(tensor): a 0-d tensor holding the Python number
th_tensor_to(x, tensor) == Tensor(<<>>, <<x.v>>)

zeros_like(x) == Tensor(x.shape, [i \in 1..Numel(x.shape) |-> 0])
ones_like(x) == Tensor(x.shape, [i \in 1..Numel(x.shape) |-> S])

\* x < c and x > c against a Python number, elementwise
th_lt(x, c) == Tensor(x.shape, [i \in 1..Numel(x.shape) |-> x.data[i] < c])
th_gt(x, c) == Tensor(x.shape, [i \in 1..Numel(x.shape) |-> x.data[i] > c])

\* th.where with a condition indexed by the first element only
th_where_first(cond, a, b) ==
    IF ~IsValue(a) THEN a
    ELSE IF ~IsValue(b) THEN b
    ELSE LET sh == Broadcast(Broadcast(cond.shape, ShapeOf(a)), ShapeOf(b))
         IN  IF sh = NoShape THEN Raise("RuntimeError")
             ELSE Tensor(sh, [i \in 1..Numel(sh) |->
                                 IF At(cond, 1) THEN At(a, i) ELSE At(b, i)])

\* th.where(cond, a, b): a where cond holds, else b, elementwise
th_where(cond, a, b) ==
    IF ~IsValue(a) THEN a
    ELSE IF ~IsValue(b) THEN b
    ELSE LET sh == Broadcast(Broadcast(cond.shape, ShapeOf(a)), ShapeOf(b))
         IN  IF sh = NoShape THEN Raise("RuntimeError")
             ELSE Tensor(sh, [i \in 1..Numel(sh) |->
                                 IF At(cond, i) THEN At(a, i) ELSE At(b, i)])

\* 1e-12 lies strictly between the grid values 0 and 1, so p < 1e-12 iff
\* p < ClampMinCeil; LogFloor is log(1e-12)
ClampMinCeil == 1
LogFloor == -1409182

\* th.log(t) with no clamp before it
th_log_unclamped(t) == th_log(t)

\* th.log(t.clamp(min=1e-12))
LogClamp(p) == IF p < ClampMinCeil THEN LogFloor ELSE Log(p)
th_log_clamp(t) ==
    IF ~IsValue(t) THEN t
    ELSE IF ~IsTensor(t) THEN Raise("TypeError")
    ELSE Tensor(t.shape, [i \in 1..Numel(t.shape) |-> LogClamp(t.data[i])])


---------------------------------------------------------------------------
(* normal_kl                                                               *)

Half == 25500

\* the loop stopping at the second argument
first_tensor_two(mean1, logvar1, mean2, logvar2) ==
    IF IsTensor(mean1) THEN mean1
    ELSE IF IsTensor(logvar1) THEN logvar1
    ELSE None

\* for obj in (mean1, logvar1, mean2, logvar2): the first Tensor, or None
first_tensor(mean1, logvar1, mean2, logvar2) ==
    IF IsTensor(mean1) THEN mean1
    ELSE IF IsTensor(logvar1) THEN logvar1
    ELSE IF IsTensor(mean2) THEN mean2
    ELSE IF IsTensor(logvar2) THEN logvar2
    ELSE None

\* the closed form with (mean1 + mean2) ** 2
kl_formula_mean_sum(mean1, logvar1, mean2, logvar2) ==
    th_mul(Py(Half),
           th_add(th_add(th_sub(th_add(Py(-S), logvar2), logvar1),
                         th_exp(th_sub(logvar1, logvar2))),
                  th_mul(th_square(th_add(mean1, mean2)), th_exp(th_neg(logvar2)))))

\* the closed form with logvar1 - logvar2 as the linear term
kl_formula_swapped(mean1, logvar1, mean2, logvar2) ==
    th_mul(Py(Half),
           th_add(th_add(th_sub(th_add(Py(-S), logvar1), logvar2),
                         th_exp(th_sub(logvar1, logvar2))),
                  th_mul(th_square(th_sub(mean1, mean2)), th_exp(th_neg(logvar2)))))

\* 0.5 * (-1.0 + logvar2 - logvar1 + exp(logvar1 - logvar2)
\*        + ((mean1 - mean2) ** 2) * exp(-logvar2))
kl_formula(mean1, logvar1, mean2, logvar2) ==
    th_mul(Py(Half),
           th_add(th_add(th_sub(th_add(Py(-S), logvar2), logvar1),
                         th_exp(th_sub(logvar1, logvar2))),
                  th_mul(th_square(th_sub(mean1, mean2)), th_exp(th_neg(logvar2)))))

normal_kl(mean1, logvar1, mean2, logvar2) ==
    LET tensor == first_tensor(mean1, logvar1, mean2, logvar2)
    IN  IF tensor = None THEN Raise("AssertionError")
        ELSE LET lv1 == IF IsTensor(logvar1) THEN logvar1
                        ELSE th_tensor_to(logvar1, tensor)
                 lv2 == IF IsTensor(logvar2) THEN logvar2
                        ELSE th_tensor_to(logvar2, tensor)
             IN  kl_formula(mean1, lv1, mean2, lv2)

---------------------------------------------------------------------------
(* approx_standard_normal_cdf                                              *)

Sqrt2OverPi == 40692
Coeff044715 == 2280

\* the approximation with the cubic term subtracted
approx_standard_normal_cdf_minus(x) ==
    th_mul(Py(Half),
           th_add(Py(S),
                  th_tanh(th_mul(Py(Sqrt2OverPi),
                                 th_sub(x, th_mul(Py(Coeff044715), th_pow3(x)))))))

\* 0.5 * (1.0 + tanh(sqrt(2.0 / pi) * (x + 0.044715 * pow(x, 3))))
approx_standard_normal_cdf(x) ==
    th_mul(Py(Half),
           th_add(Py(S),
                  th_tanh(th_mul(Py(Sqrt2OverPi),
                                 th_add(x, th_mul(Py(Coeff044715), th_pow3(x)))))))

---------------------------------------------------------------------------
(* continuous_gaussian_log_likelihood                                      *)

LogSqrt2Pi == 46866

\* torch.distributions.Normal(loc, scale).log_prob(value):
\* -((value - loc) ** 2) / (2 * var) - log(scale) - log(sqrt(2 * pi))
Normal_log_prob(loc, scale, value) ==
    th_sub(th_sub(th_neg(th_div(th_square(th_sub(value, loc)),
                                th_mul(Py(2 * S), th_square(scale)))),
                  th_log(scale)),
           Py(LogSqrt2Pi))

continuous_gaussian_log_likelihood(x, means, log_scales) ==
    LET centered_x == th_sub(x, means)
        inv_stdv == th_exp(th_neg(log_scales))
        normalized_x == th_mul(centered_x, inv_stdv)
        log_probs == Normal_log_prob(zeros_like(x), ones_like(x), normalized_x)
    IN  log_probs

---------------------------------------------------------------------------
(* discretized_gaussian_log_likelihood                                     *)

OneOver255 == Fx(1, 255)
Thresh999 == Fx(999, 1000)

\* the assertion comparing only the first two shapes
same_shapes_first_two(x, means, log_scales) == x.shape = means.shape

\* x.shape == means.shape == log_scales.shape
same_shapes(x, means, log_scales) ==
    x.shape = means.shape /\ means.shape = log_scales.shape

\* the selection with non-strict comparisons
select_log_probs_nonstrict(x, log_cdf_plus, log_one_minus_cdf_min, cdf_delta) ==
    th_where(th_lt(x, -Thresh999 + 1),
             log_cdf_plus,
             th_where(th_gt(x, Thresh999 - 1), log_one_minus_cdf_min,
                      th_log_clamp(cdf_delta)))

\* the selection with the edges cut at 0.99
select_log_probs_wide(x, log_cdf_plus, log_one_minus_cdf_min, cdf_delta) ==
    th_where(th_lt(x, -Fx(99, 100)),
             log_cdf_plus,
             th_where(th_gt(x, Fx(99, 100)), log_one_minus_cdf_min,
                      th_log_clamp(cdf_delta)))

\* th.where(x < -0.999, log_cdf_plus,
\*          th.where(x > 0.999, log_one_minus_cdf_min,
\*                   th.log(cdf_delta.clamp(min=1e-12))))
select_log_probs(x, log_cdf_plus, log_one_minus_cdf_min, cdf_delta) ==
    th_where(th_lt(x, -Thresh999),
             log_cdf_plus,
             th_where(th_gt(x, Thresh999), log_one_minus_cdf_min,
                      th_log_clamp(cdf_delta)))

plus_in_of(x, means, log_scales) ==
    th_mul(th_exp(th_neg(log_scales)), th_add(th_sub(x, means), Py(OneOver255)))

min_in_of(x, means, log_scales) ==
    th_mul(th_exp(th_neg(log_scales)), th_sub(th_sub(x, means), Py(OneOver255)))

cdf_plus_of(x, means, log_scales) ==
    approx_standard_normal_cdf(plus_in_of(x, means, log_scales))

cdf_min_of(x, means, log_scales) ==
    approx_standard_normal_cdf(min_in_of(x, means, log_scales))

discretized_gaussian_log_likelihood(x, means, log_scales) ==
    IF ~same_shapes(x, means, log_scales) THEN Raise("AssertionError")
    ELSE LET cdf_plus == cdf_plus_of(x, means, log_scales)
             cdf_min == cdf_min_of(x, means, log_scales)
             log_cdf_plus == th_log_clamp(cdf_plus)
             log_one_minus_cdf_min == th_log_clamp(th_sub(Py(S), cdf_min))
             cdf_delta == th_sub(cdf_plus, cdf_min)
             log_probs == select_log_probs(x, log_cdf_plus, log_one_minus_cdf_min,
                                           cdf_delta)
         IN  IF IsTensor(log_probs) /\ log_probs.shape # x.shape
             THEN Raise("AssertionError")
             ELSE log_probs

---------------------------------------------------------------------------
(* Inputs                                                                  *)

MaxLenCdf == 2
MaxDimKL == 2
MaxDim == 4
MaxLenPair == 2
NumBins == 256

RECURSIVE SeqsOfLen(_, _)
SeqsOfLen(V, n) ==
    IF n = 0 THEN {<<>>}
    ELSE {Append(s, v) : s \in SeqsOfLen(V, n - 1), v \in V}

\* 1-d tensors of every length up to maxLen with elements from V
Vectors(V, maxLen) ==
    UNION {{Tensor(<<n>>, s) : s \in SeqsOfLen(V, n)} : n \in 1..maxLen}

Shapes(maxDim) == {<<>>} \cup {<<n>> : n \in 1..maxDim}

\* constant tensors of every shape up to maxDim with a value from V
Fulls(V, maxDim) == {Full(sh, v) : sh \in Shapes(maxDim), v \in V}

Floats(V) == {Py(v) : v \in V}

CdfVals ==
    {0, 1, -1, Fx(1, 255), -Fx(1, 255), Fx(1, 2), -Fx(1, 2), S, -S, 3 * S, -3 * S,
     4 * S, -4 * S, Fx(42, 10), Fx(425, 100), Fx(43, 10), 5 * S, -5 * S, 9 * S, -9 * S, 15 * S, -15 * S}

MeanVals == {0, Fx(3, 4)}
LogvarVals == {-S, 0, 1, Fx(1, 2)}

XVals ==
    {-S, -Thresh999 - 1, -Thresh999, -S + 2 * OneOver255, 0, Fx(1, 2),
     S - 2 * OneOver255, Thresh999, Thresh999 + 1, S}
MVals == {-S, 0, Fx(1, 2)}
LVals == {-2 * S, -S, 0, S}

---------------------------------------------------------------------------
(* One call of each function on inputs drawn at the start                  *)

InitCdf ==
    /\ pc = "ready"
    /\ fn = "approx_standard_normal_cdf"
    /\ args \in {[x |-> t] : t \in Vectors(CdfVals, MaxLenCdf)}
    /\ out = None
    /\ prev = None
    /\ walk = None

Call_approx_standard_normal_cdf ==
    /\ pc = "ready"
    /\ fn = "approx_standard_normal_cdf"
    /\ out' = approx_standard_normal_cdf(args.x)
    /\ pc' = "done"
    /\ UNCHANGED <<fn, args, prev, walk>>

NextCdf == Call_approx_standard_normal_cdf

SpecCdf == InitCdf /\ [][NextCdf]_vars

InitKL ==
    /\ pc = "ready"
    /\ fn = "normal_kl"
    /\ args \in [mean1 : Floats(MeanVals) \cup Fulls(MeanVals, MaxDimKL),
                 logvar1 : Floats(LogvarVals) \cup Fulls(LogvarVals, MaxDimKL),
                 mean2 : Floats(MeanVals) \cup Fulls(MeanVals, MaxDimKL),
                 logvar2 : Floats(LogvarVals) \cup Fulls(LogvarVals, MaxDimKL)]
    /\ out = None
    /\ prev = None
    /\ walk = None

Call_normal_kl ==
    /\ pc = "ready"
    /\ fn = "normal_kl"
    /\ out' = normal_kl(args.mean1, args.logvar1, args.mean2, args.logvar2)
    /\ pc' = "done"
    /\ UNCHANGED <<fn, args, prev, walk>>

NextKL == Call_normal_kl

SpecKL == InitKL /\ [][NextKL]_vars

InitCont ==
    /\ pc = "ready"
    /\ fn = "continuous_gaussian_log_likelihood"
    /\ args \in [x : Vectors({-S, 0, Fx(1, 2)}, 2),
                 means : Vectors({0, Fx(1, 2)}, 1),
                 log_scales : Vectors({-S, 0, S}, 1)]
    /\ out = None
    /\ prev = None
    /\ walk = None

Call_continuous_gaussian_log_likelihood ==
    /\ pc = "ready"
    /\ fn = "continuous_gaussian_log_likelihood"
    /\ out' = continuous_gaussian_log_likelihood(args.x, args.means, args.log_scales)
    /\ pc' = "done"
    /\ UNCHANGED <<fn, args, prev, walk>>

NextCont == Call_continuous_gaussian_log_likelihood

SpecCont == InitCont /\ [][NextCont]_vars

InitDisc ==
    /\ pc = "ready"
    /\ fn = "discretized_gaussian_log_likelihood"
    /\ args \in [x : Fulls(XVals, MaxDim),
                 means : Fulls(MVals, MaxDim),
                 log_scales : Fulls(LVals, MaxDim)]
    /\ out = None
    /\ prev = None
    /\ walk = None

Call_discretized_gaussian_log_likelihood ==
    /\ pc = "ready"
    /\ fn = "discretized_gaussian_log_likelihood"
    /\ walk = None
    /\ out' = discretized_gaussian_log_likelihood(args.x, args.means, args.log_scales)
    /\ pc' = "done"
    /\ UNCHANGED <<fn, args, prev, walk>>

NextDisc == Call_discretized_gaussian_log_likelihood

SpecDisc == InitDisc /\ [][NextDisc]_vars

---------------------------------------------------------------------------
(* Two calls of discretized_gaussian_log_likelihood on same-shaped inputs  *)

PairInputs ==
    UNION {[x : {Tensor(<<n>>, s) : s \in SeqsOfLen({-S, 0, S}, n)},
            means : {Tensor(<<n>>, s) : s \in SeqsOfLen({0}, n)},
            log_scales : {Tensor(<<n>>, s) : s \in SeqsOfLen({-S, 0}, n)}]
           : n \in 1..MaxLenPair}

InitPair ==
    /\ pc = "ready"
    /\ fn = "discretized_gaussian_log_likelihood"
    /\ args \in PairInputs
    /\ out = None
    /\ prev = None
    /\ walk = None

\* the caller keeps the first result and calls again on other inputs of the
\* same shape
CallAgain ==
    /\ pc = "done"
    /\ fn = "discretized_gaussian_log_likelihood"
    /\ prev = None
    /\ prev' = [args |-> args, out |-> out]
    /\ args' \in {a \in PairInputs : a.x.shape = args.x.shape}
    /\ out' = None
    /\ pc' = "ready"
    /\ UNCHANGED <<fn, walk>>

NextPair == Call_discretized_gaussian_log_likelihood \/ CallAgain

SpecPair == InitPair /\ [][NextPair]_vars

---------------------------------------------------------------------------
(* The 256 grid values x_k = -1 + 2k/255, one call per value               *)

GridValue(k) == -S + 2 * k * OneOver255

GridX(k) == Tensor(<<1>>, <<GridValue(k)>>)

\* the probability the k-th bin's branch takes the logarithm of
BinMass(k, means, log_scales) ==
    IF k = 0 THEN cdf_plus_of(GridX(k), means, log_scales).data[1]
    ELSE IF k = NumBins - 1 THEN S - cdf_min_of(GridX(k), means, log_scales).data[1]
    ELSE cdf_plus_of(GridX(k), means, log_scales).data[1]
         - cdf_min_of(GridX(k), means, log_scales).data[1]

InitGrid ==
    /\ pc = "ready"
    /\ fn = "discretized_gaussian_log_likelihood"
    /\ args \in [x : {GridX(0)},
                 means : {Tensor(<<1>>, <<m>>) : m \in {-Fx(1, 2), 0, Fx(1, 2)}},
                 log_scales : {Tensor(<<1>>, <<l>>) : l \in LVals}]
    /\ out = None
    /\ prev = None
    /\ walk = [k |-> 0, total |-> 0, mass |-> 0, floored |-> FALSE]

\* evaluate the next grid value and add exp of its log-probability
EvalBin ==
    /\ pc = "ready"
    /\ fn = "discretized_gaussian_log_likelihood"
    /\ walk # None
    /\ LET x == GridX(walk.k)
           log_probs == discretized_gaussian_log_likelihood(x, args.means,
                                                             args.log_scales)
           mass == BinMass(walk.k, args.means, args.log_scales)
       IN  /\ args' = [args EXCEPT !.x = x]
           /\ out' = log_probs
           /\ walk' = [k |-> walk.k + 1,
                       total |-> walk.total + Exp(log_probs.data[1]),
                       mass |-> walk.mass + mass,
                       floored |-> walk.floored \/ mass < ClampMinCeil]
           /\ pc' = IF walk.k + 1 = NumBins THEN "done" ELSE "ready"
    /\ UNCHANGED <<fn, prev>>

NextGrid == EvalBin

SpecGrid == InitGrid /\ [][NextGrid]_vars

---------------------------------------------------------------------------
(* Claims                                                                  *)

Done(f) == pc = "done" /\ fn = f

Indices(t) == 1..Numel(t.shape)

\* C8: approx_standard_normal_cdf is monotonically non-decreasing (a <= b
\* gives cdf(a) <= cdf(b)), its value at 0 is 0.5 and every value lies in
\* [0, 1].
C8_CdfMonotone ==
    Done("approx_standard_normal_cdf") =>
        /\ IsTensor(out)
        /\ out.shape = args.x.shape
        /\ \A i \in Indices(out) :
              /\ 0 <= out.data[i] /\ out.data[i] <= S
              /\ args.x.data[i] = 0 => out.data[i] = Half
        /\ \A i, j \in Indices(out) :
              args.x.data[i] <= args.x.data[j] => out.data[i] <= out.data[j]

C8_Witness ==
    /\ Done("approx_standard_normal_cdf")
    /\ args.x.data = <<0, S>>
    /\ out.data[1] = Half
    /\ out.data[1] < out.data[2]
    /\ out.data[2] < S

---------------------------------------------------------------------------
(* normal_kl                                                               *)

KLArgs == <<args.mean1, args.logvar1, args.mean2, args.logvar2>>
TensorArgs == {n \in 1..4 : IsTensor(KLArgs[n])}

\* C4: normal_kl fails with a precondition error if and only if none of
\* its four arguments is a tensor; with exactly one tensor argument, in any
\* position, it returns a tensor.
C4_AssertIffNoTensor ==
    Done("normal_kl") =>
        /\ out.kind = "AssertionError" <=> TensorArgs = {}
        /\ Cardinality(TensorArgs) = 1 => IsTensor(out)

C4_Witness ==
    /\ Done("normal_kl")
    /\ TensorArgs = {}
    /\ out.kind = "AssertionError"

---------------------------------------------------------------------------
(* continuous_gaussian_log_likelihood                                      *)

\* z = (x - means) * exp(-log_scales) at element i
Standardised(i) ==
    Mul(At(args.x, i) - At(args.means, i), Exp(-At(args.log_scales, i)))

\* C1: every element of continuous_gaussian_log_likelihood equals
\* -0.5*z^2 - 0.5*log(2*pi) - log_scales, so that at x = means the result
\* is -L - 0.5*log(2*pi) and varies with L.
C1_DensityHasScaleTerm ==
    (Done("continuous_gaussian_log_likelihood") /\ IsTensor(out)) =>
        \A i \in Indices(out) :
            out.data[i] = - Mul(Half, Square(Standardised(i))) - LogSqrt2Pi
                          - At(args.log_scales, i)

---------------------------------------------------------------------------
(* discretized_gaussian_log_likelihood                                     *)

ShapesIdentical ==
    /\ args.x.shape = args.means.shape
    /\ args.x.shape = args.log_scales.shape

\* log(max(p, 1e-12))
LogMax(p) == IF p > 0 THEN Log(p) ELSE LogFloor

CdfPlusAt(i) == cdf_plus_of(args.x, args.means, args.log_scales).data[i]
CdfMinAt(i) == cdf_min_of(args.x, args.means, args.log_scales).data[i]

\* the value the priority order of C2 prescribes for element i
Prescribed(i) ==
    IF args.x.data[i] < -Thresh999 THEN LogMax(CdfPlusAt(i))
    ELSE IF args.x.data[i] > Thresh999 THEN LogMax(S - CdfMinAt(i))
    ELSE LogMax(CdfPlusAt(i) - CdfMinAt(i))

\* C2: every element is chosen in priority order: x < -0.999 gives
\* log(max(cdf_plus, 1e-12)); otherwise x > 0.999 gives
\* log(max(1 - cdf_min, 1e-12)); otherwise, x = -0.999 and x = 0.999
\* included, log(max(cdf_plus - cdf_min, 1e-12)).
C2_BranchPriority ==
    (Done("discretized_gaussian_log_likelihood") /\ walk = None /\ IsTensor(out)) =>
        \A i \in Indices(out) : out.data[i] = Prescribed(i)

\* x exactly 0.999 takes the bin-mass difference, which here differs from
\* the right-edge value
C2_Witness ==
    /\ Done("discretized_gaussian_log_likelihood")
    /\ walk = None
    /\ IsTensor(out)
    /\ args.x.data[1] = Thresh999
    /\ out.data[1] = LogMax(CdfPlusAt(1) - CdfMinAt(1))
    /\ out.data[1] # LogMax(S - CdfMinAt(1))
    /\ out.data[1] > LogFloor

\* C3: the call fails with a precondition error whenever the shapes of x,
\* means and log_scales are not all identical, broadcast-compatible or not;
\* with identical shapes it succeeds and the output has the shape of x.
C3_ShapePrecondition ==
    (Done("discretized_gaussian_log_likelihood") /\ walk = None) =>
        /\ ~ShapesIdentical => out.kind = "AssertionError"
        /\ ShapesIdentical => (IsTensor(out) /\ out.shape = args.x.shape)

C3_Witness ==
    /\ Done("discretized_gaussian_log_likelihood")
    /\ walk = None
    /\ args.x.shape = <<4>>
    /\ args.means.shape = <<1>>
    /\ args.log_scales.shape = <<4>>
    /\ out.kind = "AssertionError"

\* C7: every returned element is the logarithm of a quantity floored at
\* 1e-12, so none is below log(1e-12) and none is minus infinity.
C7_FlooredLogs ==
    (Done("discretized_gaussian_log_likelihood") /\ walk = None /\ IsTensor(out)) =>
        \A i \in Indices(out) : out.data[i] >= LogFloor /\ out.data[i] # NegInf

\* the floor is active: the selected probability is below 1e-12
C7_Witness ==
    /\ Done("discretized_gaussian_log_likelihood")
    /\ walk = None
    /\ IsTensor(out)
    /\ \E i \in Indices(out) :
          /\ args.x.data[i] = 0
          /\ CdfPlusAt(i) - CdfMinAt(i) < ClampMinCeil
          /\ out.data[i] = LogFloor

---------------------------------------------------------------------------
(* Two calls, and the walk over the grid                                   *)

AgreeAt(a, b, i) ==
    /\ a.x.data[i] = b.x.data[i]
    /\ a.means.data[i] = b.means.data[i]
    /\ a.log_scales.data[i] = b.log_scales.data[i]

\* C9: element independence: two calls on inputs of the same shape that
\* agree at index i return the same value at index i, whatever the other
\* elements are.
C9_ElementIndependence ==
    (Done("discretized_gaussian_log_likelihood") /\ prev # None) =>
        /\ IsTensor(out) /\ IsTensor(prev.out)
        /\ \A i \in Indices(out) :
              AgreeAt(args, prev.args, i) => out.data[i] = prev.out.data[i]

\* the calls agree at index 1 and differ, in branch too, at index 2
C9_Witness ==
    /\ Done("discretized_gaussian_log_likelihood")
    /\ prev # None
    /\ out.shape = <<2>>
    /\ AgreeAt(args, prev.args, 1)
    /\ args.x.data[1] = 0
    /\ args.x.data[2] = S
    /\ prev.args.x.data[2] = -S
    /\ out.data[1] = prev.out.data[1]
    /\ out.data[2] # prev.out.data[2]

Bin == walk.k - 1

====
